---------------------------- MODULE Spec2Model ----------------------------
(***************************************************************************)
(* A model of gosnomer.normalize (src/gosnomer/gosnomer.py): correction of *)
(* manually entered Russian vehicle registration plates.                   *)
(*                                                                         *)
(* A Python string is a sequence of characters, a character is a TLA+      *)
(* string naming it.  ASCII characters name themselves ("0", "A", " ").    *)
(* A Cyrillic capital letter is named "CYR_<Unicode name>" ("CYR_O" is     *)
(* U+041E, "CYR_HA" is U+0425) and its small letter "cyr_<name>".  The     *)
(* symbols of a format or a mask are the ASCII characters "X", "9", "*".   *)
(***************************************************************************)
EXTENDS Naturals, Sequences, FiniteSets

(***************************************************************************)
(* Module-level tables of gosnomer.py                                      *)
(***************************************************************************)

\* _repl_old = "ABCEHIKMOPTXY" + CYRILLIC ZE
_repl_old ==
    <<"A", "B", "C", "E", "H", "I", "K", "M", "O", "P", "T", "X", "Y", "CYR_ZE">>

\* _repl_new: the Cyrillic look-alikes, and the digits 1 and 3
_repl_new ==
    <<"CYR_A", "CYR_VE", "CYR_ES", "CYR_IE", "CYR_EN", "1", "CYR_KA", "CYR_EM",
      "CYR_O", "CYR_ER", "CYR_TE", "CYR_HA", "CYR_U", "3">>

ALLOWED_LETTERS ==
    {"CYR_A", "CYR_VE", "CYR_IE", "CYR_KA", "CYR_EM", "CYR_EN", "CYR_O",
     "CYR_ER", "CYR_ES", "CYR_TE", "CYR_U", "CYR_HA"}

ALLOWED_NUMBERS == {"0", "1", "2", "3", "4", "5", "6", "7", "8", "9"}

ALLOWED_SYMBOLS == ALLOWED_LETTERS \cup ALLOWED_NUMBERS

F_X999XX99  == <<"X", "9", "9", "9", "X", "X", "9", "9">>
F_X999XX999 == <<"X", "9", "9", "9", "X", "X", "9", "9", "9">>
F_XX99999   == <<"X", "X", "9", "9", "9", "9", "9">>
F_XX999999  == <<"X", "X", "9", "9", "9", "9", "9", "9">>
F_9999XX99  == <<"9", "9", "9", "9", "X", "X", "9", "9">>
F_XX99XX99  == <<"X", "X", "9", "9", "X", "X", "9", "9">>

ALLOWED_FORMATS ==
    {F_X999XX99, F_X999XX999, F_XX99999, F_XX999999, F_9999XX99, F_XX99XX99}

(***************************************************************************)
(* str methods used by the code                                            *)
(***************************************************************************)

\* The small letters of the model's alphabet and their capitals: str.upper
\* leaves every other character of the model's alphabet as it is.
_lower ==
    <<"a", "b", "c", "e", "h", "i", "k", "m", "o", "p", "t", "x", "y",
      "cyr_a", "cyr_ve", "cyr_ie", "cyr_ka", "cyr_em", "cyr_en", "cyr_o",
      "cyr_er", "cyr_es", "cyr_te", "cyr_u", "cyr_ha", "cyr_ze", "cyr_ghe">>

_upper ==
    <<"A", "B", "C", "E", "H", "I", "K", "M", "O", "P", "T", "X", "Y",
      "CYR_A", "CYR_VE", "CYR_IE", "CYR_KA", "CYR_EM", "CYR_EN", "CYR_O",
      "CYR_ER", "CYR_ES", "CYR_TE", "CYR_U", "CYR_HA", "CYR_ZE", "CYR_GHE">>

\* c.upper() for one character
upper_char(c) ==
    IF \E i \in 1..Len(_lower) : _lower[i] = c
    THEN _upper[CHOOSE i \in 1..Len(_lower) : _lower[i] = c]
    ELSE c

\* s.upper()
str_upper(s) == [i \in 1..Len(s) |-> upper_char(s[i])]

\* s.replace(old, new) for one-character old; new is a string (a sequence),
\* empty to delete
RECURSIVE str_replace(_, _, _)
str_replace(s, old, new) ==
    IF s = <<>> THEN <<>>
    ELSE (IF Head(s) = old THEN new ELSE <<Head(s)>>)
         \o str_replace(Tail(s), old, new)

\* s[:i] + new_char + s[i + 1:], with i counted from 0 as in the code;
\* Python's slices clip, so an i past the end appends
repl_char(s, i, new_char) ==
    SubSeq(s, 1, IF i < Len(s) THEN i ELSE Len(s))
    \o <<new_char>>
    \o SubSeq(s, i + 2, Len(s))

\* s.endswith(suffix)
str_endswith(s, suffix) ==
    /\ Len(suffix) <= Len(s)
    /\ SubSeq(s, Len(s) - Len(suffix) + 1, Len(s)) = suffix

(***************************************************************************)
(* The stages of normalize, as functions                                   *)
(***************************************************************************)

\* check_prefer without its test of the entries
check_prefer_unchecked(prefer) ==
    [raised |-> FALSE, prefer |-> IF prefer.given THEN prefer.list ELSE <<>>]

\* check_prefer: prefer is [given |-> FALSE, list |-> <<>>] for None.
\* Returns the list, or raises for the entries that are no allowed format.
prefer_not_found(prefer) ==
    {prefer.list[i] : i \in 1..Len(prefer.list)} \ ALLOWED_FORMATS

check_prefer(prefer) ==
    LET list == IF prefer.given THEN prefer.list ELSE <<>>
    IN  IF list # <<>> /\ prefer_not_found(prefer) # {}
        THEN [raised |-> TRUE, prefer |-> <<>>]
        ELSE [raised |-> FALSE, prefer |-> list]

\* the loop "for rt in _repl_tuples: no = no.replace(rt[0], rt[1])", over
\* the first n pairs.  _repl_tuples is a set and the loop takes its pairs in
\* any order; no replacement is the source of another, so every order gives
\* the same string.
RECURSIVE apply_repl(_, _)
apply_repl(no, n) ==
    IF n = 0 THEN no
    ELSE str_replace(apply_repl(no, n - 1), _repl_old[n], <<_repl_new[n]>>)

\* str.strip(" ") in place of replace(" ", ""): only the spaces at the two
\* ends are removed
RECURSIVE lstrip(_)
lstrip(s) == IF s # <<>> /\ Head(s) = " " THEN lstrip(Tail(s)) ELSE s

RECURSIVE rstrip(_)
rstrip(s) ==
    IF s # <<>> /\ s[Len(s)] = " " THEN rstrip(SubSeq(s, 1, Len(s) - 1)) ELSE s

basic_adjustments_strip(no) ==
    apply_repl(str_upper(rstrip(lstrip(no))), Len(_repl_old))

basic_adjustments(no) ==
    apply_repl(str_upper(str_replace(no, " ", <<>>)), Len(_repl_old))

\* the mask symbol of one character, "" when the loop raises on it
mask_char(char) ==
    IF char \in {"0", "CYR_O"} THEN "*"
    ELSE IF char \in ALLOWED_LETTERS THEN "X"
    ELSE IF char \in ALLOWED_NUMBERS THEN "9"
    ELSE ""

build_mask(no) ==
    LET bad == {i \in 1..Len(no) : mask_char(no[i]) = ""}
    IN  IF bad # {}
        THEN [raised |-> TRUE, fmt |-> <<>>,
              char |-> no[CHOOSE i \in bad : \A j \in bad : i <= j]]
        ELSE [raised |-> FALSE, fmt |-> [i \in 1..Len(no) |-> mask_char(no[i])],
              char |-> ""]

\* it.combinations(asterisk_positions, number_of_digits), as sets
combinations(positions, n) == {P \in SUBSET positions : Cardinality(P) = n}

\* attempted_fmt after "for i in positions_of_digits: attempted_fmt =
\* repl_char(attempted_fmt, i, "9")"; positions count from 0
RECURSIVE attempted_fmt(_, _)
attempted_fmt(starting_fmt, positions_of_digits) ==
    IF positions_of_digits = {} THEN starting_fmt
    ELSE LET i == CHOOSE i \in positions_of_digits : TRUE
         IN  attempted_fmt(repl_char(starting_fmt, i, "9"),
                           positions_of_digits \ {i})

\* found_fmts with range(1, len(asterisk_positions)): the attempt that turns
\* every asterisk into a digit is never made
found_fmts_short_range(fmt) ==
    LET asterisk_positions == {i \in 0..(Len(fmt) - 1) : fmt[i + 1] = "*"}
        starting_fmt == str_replace(fmt, "*", <<"X">>)
        attempts ==
            UNION {{attempted_fmt(starting_fmt, P) :
                       P \in combinations(asterisk_positions, number_of_digits)} :
                   number_of_digits \in 1..(Cardinality(asterisk_positions) - 1)}
    IN  ({starting_fmt} \cap ALLOWED_FORMATS) \cup (attempts \cap ALLOWED_FORMATS)

\* find_possible_formats before its final test: found_fmts
found_fmts(fmt) ==
    LET asterisk_positions == {i \in 0..(Len(fmt) - 1) : fmt[i + 1] = "*"}
        starting_fmt == str_replace(fmt, "*", <<"X">>)
        attempts ==
            UNION {{attempted_fmt(starting_fmt, P) :
                       P \in combinations(asterisk_positions, number_of_digits)} :
                   number_of_digits \in 1..Cardinality(asterisk_positions)}
    IN  ({starting_fmt} \cap ALLOWED_FORMATS) \cup (attempts \cap ALLOWED_FORMATS)

find_possible_formats(fmt) ==
    [raised |-> found_fmts(fmt) = {}, possible |-> found_fmts(fmt)]

\* the for loop without its break: the last entry of prefer that is in
\* possible wins
RECURSIVE last_preferred(_, _)
last_preferred(prefer, possible) ==
    IF prefer = <<>> THEN <<"else">>
    ELSE IF prefer[Len(prefer)] \in possible THEN prefer[Len(prefer)]
    ELSE last_preferred(SubSeq(prefer, 1, Len(prefer) - 1), possible)

\* the for loop never breaking and leaving nothing: always the else branch
preferred_ignored(prefer, possible) == <<"else">>

\* the for loop of choose_format: the first entry of prefer that is in
\* possible, <<"else">> when the loop ends without break
RECURSIVE first_preferred(_, _)
first_preferred(prefer, possible) ==
    IF prefer = <<>> THEN <<"else">>
    ELSE IF Head(prefer) \in possible THEN Head(prefer)
    ELSE first_preferred(Tail(prefer), possible)

\* the loop of replace_asterisks_to_chosen_format from position i (from 0) on
RECURSIVE replace_asterisks_from(_, _, _, _)
replace_asterisks_from(no, fmt, chosen_fmt, i) ==
    IF i >= Len(fmt) THEN no
    ELSE IF fmt[i + 1] = "*"
         THEN LET new_char == IF chosen_fmt[i + 1] = "9" THEN "0" ELSE "CYR_O"
              IN  replace_asterisks_from(repl_char(no, i, new_char), fmt,
                                         chosen_fmt, i + 1)
         ELSE replace_asterisks_from(no, fmt, chosen_fmt, i + 1)

\* the two characters the wrong way round: CYR_O at a digit, "0" at a letter
replace_asterisks_swapped(no, fmt, chosen_fmt) ==
    [i \in 1..Len(no) |->
        IF fmt[i] = "*"
        THEN (IF chosen_fmt[i] = "9" THEN "CYR_O" ELSE "0")
        ELSE no[i]]

replace_asterisks_to_chosen_format(no, fmt, chosen_fmt) ==
    replace_asterisks_from(no, fmt, chosen_fmt, 0)

\* the pattern without its two groups, r"0+": any "0" is found
re_zero_found_unanchored(no) == \E i \in 1..Len(no) : no[i] = "0"

\* re.findall(r"(^|\D)0+(\D|$)", no) is not empty: some i..j holds only "0",
\* starts the string or follows a non-digit, and ends it or precedes one
re_zero_run_found(no) ==
    \E i \in 1..Len(no) : \E j \in i..Len(no) :
        /\ i = 1 \/ no[i - 1] \notin ALLOWED_NUMBERS
        /\ \A k \in i..j : no[k] = "0"
        /\ j = Len(no) \/ no[j + 1] \notin ALLOWED_NUMBERS

\* final_checks: the error it raises, "" when it returns
final_checks(no, chosen_fmt) ==
    IF re_zero_run_found(no) THEN "AllZeroSequence"
    ELSE IF str_endswith(chosen_fmt, <<"9", "9", "9">>) /\ no[Len(no) - 2] = "0"
         THEN "LeadingZeroRegion"
    ELSE ""

(***************************************************************************)
(* The state: one Python process running calls of normalize                *)
(***************************************************************************)

VARIABLES
    entry,       \* the function the caller entered: "normalize", or
                 \* "find_possible_formats" called on its own
    arg_no,      \* the argument no of the call, as text
    arg_prefer,  \* the argument prefer: [given, list], given = FALSE for None
    pc,          \* the next statement of normalize, "done" after it ended
    prefer,      \* normalize's local prefer, after check_prefer
    no,          \* normalize's local no
    fmt,         \* the mask
    possible,    \* the set find_possible_formats returned
    chosen_fmt,  \* the format choose_format returned
    raised,      \* the error the call ended with, "" for none
    raised_char, \* the character an InvalidCharacter error reports
    result,      \* the string the call returned (pc = "done", raised = "")
    iter_first,  \* the pairs <<S, f>>: in this process iter(S) yields f first
    prev         \* the call before this one: its arguments and outcome

vars ==
    <<entry, arg_no, arg_prefer, pc, prefer, no, fmt, possible, chosen_fmt,
      raised, raised_char, result, iter_first, prev>>

None == [given |-> FALSE, list |-> <<>>]

NoPrev ==
    [called |-> FALSE, no |-> <<>>, prefer |-> None, raised |-> "", result |-> <<>>]

\* The state on entering normalize(a_no, a_prefer)
Enter(a_no, a_prefer) ==
    /\ entry = "normalize"
    /\ arg_no = a_no
    /\ arg_prefer = a_prefer
    /\ pc = "check_prefer"
    /\ prefer = <<>>
    /\ no = a_no
    /\ fmt = <<>>
    /\ possible = {}
    /\ chosen_fmt = <<>>
    /\ raised = ""
    /\ raised_char = ""
    /\ result = <<>>

\* raise ValueError(...): the call ends with the error
Raise(error, char) ==
    /\ raised' = error
    /\ raised_char' = char
    /\ pc' = "done"

\* line 144: prefer = check_prefer(prefer)
step_check_prefer ==
    /\ pc = "check_prefer"
    /\ LET r == check_prefer(arg_prefer)
       IN  IF r.raised
           THEN /\ Raise("InvalidPreferredFormat", "")
                /\ UNCHANGED prefer
           ELSE /\ prefer' = r.prefer
                /\ pc' = "basic_adjustments"
                /\ UNCHANGED <<raised, raised_char>>
    /\ UNCHANGED <<entry, arg_no, arg_prefer, no, fmt, possible, chosen_fmt,
                   result, iter_first, prev>>

\* line 145: no = basic_adjustments(no)
step_basic_adjustments ==
    /\ pc = "basic_adjustments"
    /\ no' = basic_adjustments(no)
    /\ pc' = "build_mask"
    /\ UNCHANGED <<entry, arg_no, arg_prefer, prefer, fmt, possible, chosen_fmt,
                   raised, raised_char, result, iter_first, prev>>

\* line 146: fmt = build_mask(no)
step_build_mask ==
    /\ pc = "build_mask"
    /\ LET r == build_mask(no)
       IN  IF r.raised
           THEN /\ Raise("InvalidCharacter", r.char)
                /\ UNCHANGED fmt
           ELSE /\ fmt' = r.fmt
                /\ pc' = "find_possible_formats"
                /\ UNCHANGED <<raised, raised_char>>
    /\ UNCHANGED <<entry, arg_no, arg_prefer, prefer, no, possible, chosen_fmt,
                   result, iter_first, prev>>

\* line 147: possible = find_possible_formats(fmt); a caller that entered
\* find_possible_formats itself has its value here
step_find_possible_formats ==
    /\ pc = "find_possible_formats"
    /\ LET r == find_possible_formats(fmt)
       IN  IF r.raised
           THEN /\ Raise("NoMatchingFormat", "")
                /\ UNCHANGED possible
           ELSE /\ possible' = r.possible
                /\ pc' = IF entry = "normalize" THEN "choose_format" ELSE "done"
                /\ UNCHANGED <<raised, raised_char>>
    /\ UNCHANGED <<entry, arg_no, arg_prefer, prefer, no, fmt, chosen_fmt,
                   result, iter_first, prev>>

\* a set whose iteration starts anywhere at every call
iter_next_any(a_possible, known) == a_possible

\* next(iter(possible)): the element a set yields first depends on the
\* process's string hashes (fixed when the interpreter starts, different from
\* process to process) and on the order the set was filled in, which
\* find_possible_formats fixes for each set.  A process that has not yet
\* iterated over possible may yield any element; one that has yields the same.
iter_next(a_possible, known) ==
    IF \E p \in known : p[1] = a_possible
    THEN {p[2] : p \in {q \in known : q[1] = a_possible}}
    ELSE a_possible

\* choose_format whose fallback is a free choice at every call
step_choose_format_fresh ==
    /\ pc = "choose_format"
    /\ IF first_preferred(prefer, possible) # <<"else">>
       THEN /\ chosen_fmt' = first_preferred(prefer, possible)
            /\ UNCHANGED iter_first
       ELSE \E f \in possible :
                /\ chosen_fmt' = f
                /\ UNCHANGED iter_first
    /\ pc' = "replace_asterisks_to_chosen_format"
    /\ UNCHANGED <<entry, arg_no, arg_prefer, prefer, no, fmt, possible,
                   raised, raised_char, result, prev>>

\* line 148: chosen_fmt = choose_format(prefer, possible)
step_choose_format ==
    /\ pc = "choose_format"
    /\ IF first_preferred(prefer, possible) # <<"else">>
       THEN /\ chosen_fmt' = first_preferred(prefer, possible)
            /\ UNCHANGED iter_first
       ELSE \E f \in iter_next(possible, iter_first) :
                /\ chosen_fmt' = f
                /\ iter_first' = iter_first \cup {<<possible, f>>}
    /\ pc' = "replace_asterisks_to_chosen_format"
    /\ UNCHANGED <<entry, arg_no, arg_prefer, prefer, no, fmt, possible,
                   raised, raised_char, result, prev>>

\* line 149: no = replace_asterisks_to_chosen_format(no, fmt, chosen_fmt)
step_replace_asterisks_to_chosen_format ==
    /\ pc = "replace_asterisks_to_chosen_format"
    /\ no' = replace_asterisks_to_chosen_format(no, fmt, chosen_fmt)
    /\ pc' = "final_checks"
    /\ UNCHANGED <<entry, arg_no, arg_prefer, prefer, fmt, possible, chosen_fmt,
                   raised, raised_char, result, iter_first, prev>>

\* lines 150-152: final_checks(no, chosen_fmt); return no
step_final_checks ==
    /\ pc = "final_checks"
    /\ IF final_checks(no, chosen_fmt) # ""
       THEN /\ Raise(final_checks(no, chosen_fmt), "")
            /\ UNCHANGED result
       ELSE /\ result' = no
            /\ pc' = "done"
            /\ UNCHANGED <<raised, raised_char>>
    /\ UNCHANGED <<entry, arg_no, arg_prefer, prefer, no, fmt, possible,
                   chosen_fmt, iter_first, prev>>

\* what the caller keeps of a call that ended
Outcome ==
    [called |-> TRUE, no |-> arg_no, prefer |-> arg_prefer, raised |-> raised,
     result |-> result]

\* the caller calls normalize(a_no, a_prefer) after a call that ended
CallNext(a_no, a_prefer) ==
    /\ prev' = Outcome
    /\ arg_no' = a_no
    /\ arg_prefer' = a_prefer
    /\ pc' = "check_prefer"
    /\ prefer' = <<>>
    /\ no' = a_no
    /\ fmt' = <<>>
    /\ possible' = {}
    /\ chosen_fmt' = <<>>
    /\ raised' = ""
    /\ raised_char' = ""
    /\ result' = <<>>
    /\ UNCHANGED <<entry, iter_first>>

\* the same process calls normalize again with the same arguments
call_again ==
    /\ entry = "normalize"
    /\ pc = "done"
    /\ CallNext(arg_no, arg_prefer)

\* the same process calls normalize on the string it got, same prefer
call_on_result ==
    /\ entry = "normalize"
    /\ pc = "done"
    /\ raised = ""
    /\ CallNext(result, arg_prefer)

Next ==
    \/ step_check_prefer
    \/ step_basic_adjustments
    \/ step_build_mask
    \/ step_find_possible_formats
    \/ step_choose_format
    \/ step_replace_asterisks_to_chosen_format
    \/ step_final_checks
    \/ call_again
    \/ call_on_result

(***************************************************************************)
(* The inputs of the checked runs                                          *)
(***************************************************************************)

\* At most this many ambiguous characters ("0" or CYR_O) in an input
MaxAmbig == 2

\* At most this many entries in a list of preferred formats
MaxPrefer == 2

\* At most this many whitespace characters added to an input
MaxSpaces == 2

\* At most this many symbols in a mask given to find_possible_formats
MaxMaskLen == 9

\* shapes of inputs that match no format: "", and as many digits as "123"
\* and "12345678" of the tests
OtherShapes ==
    {<<>>, <<"9", "9", "9">>, <<"9", "9", "9", "9", "9", "9", "9", "9">>}

Shapes == ALLOWED_FORMATS \cup OtherShapes

\* a string of shape f: the letter CYR_A at "X", the digit 1 at "9", and the
\* ambiguous character g[i] at the positions i of D
Plate(f, D, g) ==
    [i \in 1..Len(f) |->
        IF i \in D THEN g[i] ELSE IF f[i] = "X" THEN "CYR_A" ELSE "1"]

AmbigSets(f) == {D \in SUBSET (1..Len(f)) : Cardinality(D) <= MaxAmbig}

PlateInputs ==
    UNION {UNION {{Plate(f, D, g) : g \in [D -> {"0", "CYR_O"}]} :
                  D \in AmbigSets(f)} : f \in Shapes}

\* a plate with one character that is neither a letter nor a digit of the
\* standard: CYR_GHE of the doctest, the Latin Z, a tab
InvalidInputs ==
    {[Plate(f, {}, <<>>) EXCEPT ![i] = c] :
        f \in Shapes \ {<<>>}, i \in {1, 3}, c \in {"CYR_GHE", "Z", "\t"}}

SimplePrefers ==
    {None, [given |-> TRUE, list |-> <<>>]}
    \cup {[given |-> TRUE, list |-> <<f>>] :
            f \in ALLOWED_FORMATS \cup {<<>>, <<"9", "9", "9", "9", "9", "9", "9", "9">>}}

\* the rest of the state when the process enters its first call
FirstCall ==
    /\ iter_first = {}
    /\ prev = NoPrev

\* a process whose first call is normalize on a plate, with at most one
\* preferred format
Init ==
    /\ \E a_no \in PlateInputs \cup InvalidInputs, a_prefer \in SimplePrefers :
           Enter(a_no, a_prefer)
    /\ FirstCall

Spec == Init /\ [][Next]_vars

\* the positions where f differs from another format of its length
DiffPositions(f) ==
    {i \in 1..Len(f) : \E g \in ALLOWED_FORMATS : Len(g) = Len(f) /\ g[i] # f[i]}

\* plates with "0" at some of the positions that tell the formats apart
AmbiguousInputs ==
    UNION {{Plate(f, D, [i \in D |-> "0"]) : D \in SUBSET DiffPositions(f)} :
           f \in ALLOWED_FORMATS}

\* lists of allowed formats, in every order, repetitions included
PreferLists ==
    UNION {{[given |-> TRUE, list |-> l] : l \in [1..n -> ALLOWED_FORMATS]} :
           n \in 0..MaxPrefer}

\* a process whose first call is normalize with a list of preferred formats
InitPrefer ==
    /\ \E a_no \in AmbiguousInputs, a_prefer \in PreferLists :
           Enter(a_no, a_prefer)
    /\ FirstCall

SpecPrefer == InitPrefer /\ [][Next]_vars

\* the ways a typist spells a plate: Latin look-alikes, small letters
Spellings == {"latin", "small", "small_latin"}

spell_char(c, v) ==
    IF c = "CYR_A"
    THEN (IF v = "latin" THEN "A" ELSE IF v = "small" THEN "cyr_a" ELSE "a")
    ELSE IF c = "CYR_O"
    THEN (IF v = "latin" THEN "O" ELSE IF v = "small" THEN "cyr_o" ELSE "o")
    ELSE IF c = "1"
    THEN (IF v = "latin" THEN "I" ELSE IF v = "small" THEN "1" ELSE "i")
    ELSE c

SpelledInputs ==
    {[i \in 1..Len(s) |-> spell_char(s[i], v)] : s \in PlateInputs, v \in Spellings}

\* space, tab, newline
Whitespace == {" ", "\t", "\n"}

\* s with w put in at the gaps P (0 is before the first character) from gap i on
RECURSIVE insert_from(_, _, _, _)
insert_from(s, P, w, i) ==
    IF i > Len(s) THEN <<>>
    ELSE (IF i \in P THEN <<w>> ELSE <<>>)
         \o (IF i < Len(s) THEN <<s[i + 1]>> ELSE <<>>)
         \o insert_from(s, P, w, i + 1)

SpacedInputs ==
    UNION {{insert_from(Plate(f, {}, <<>>), P, w, 0) :
               P \in {Q \in SUBSET (0..Len(f)) : Q # {} /\ Cardinality(Q) <= MaxSpaces}} :
           f \in ALLOWED_FORMATS, w \in Whitespace}

\* a process whose first call is normalize on text as typed
InitRaw ==
    /\ \E a_no \in SpelledInputs \cup SpacedInputs : Enter(a_no, None)
    /\ FirstCall

SpecRaw == InitRaw /\ [][Next]_vars

Masks == UNION {[1..n -> {"X", "9", "*"}] : n \in 0..MaxMaskLen}

\* a caller that calls find_possible_formats(fmt) itself, as test_ does
InitMask ==
    /\ entry = "find_possible_formats"
    /\ fmt \in Masks
    /\ pc = "find_possible_formats"
    /\ arg_no = <<>>
    /\ arg_prefer = None
    /\ prefer = <<>>
    /\ no = <<>>
    /\ possible = {}
    /\ chosen_fmt = <<>>
    /\ raised = ""
    /\ raised_char = ""
    /\ result = <<>>
    /\ FirstCall

NextMask == step_find_possible_formats

SpecMask == InitMask /\ [][NextMask]_vars

\* the strings replace_asterisks_to_chosen_format can leave for the format f:
\* CYR_O or CYR_A at "X", "0" or "1" at "9"
Reified(f) ==
    {[i \in 1..Len(f) |->
        IF f[i] = "X" THEN (IF i \in D THEN "CYR_O" ELSE "CYR_A")
        ELSE (IF i \in D THEN "0" ELSE "1")] : D \in SUBSET (1..Len(f))}

\* a caller that calls final_checks(no, chosen_fmt) itself
InitChecks ==
    /\ entry = "final_checks"
    /\ \E f \in ALLOWED_FORMATS : \E s \in Reified(f) :
          /\ no = s
          /\ chosen_fmt = f
    /\ pc = "final_checks"
    /\ arg_no = <<>>
    /\ arg_prefer = None
    /\ prefer = <<>>
    /\ fmt = <<>>
    /\ possible = {}
    /\ raised = ""
    /\ raised_char = ""
    /\ result = <<>>
    /\ FirstCall

NextChecks == step_final_checks

SpecChecks == InitChecks /\ [][NextChecks]_vars

(***************************************************************************)
(* What the specification says, in terms of the arguments and the outcome  *)
(***************************************************************************)

\* the call of normalize ended / ended by returning a string
Ended == entry = "normalize" /\ pc = "done"
Returned == Ended /\ raised = ""

\* choose_format has run in this call
Chosen == entry = "normalize" /\ chosen_fmt # <<>>

\* final_checks has run, in a call of normalize or on its own
Checked == pc = "done" /\ chosen_fmt # <<>>

\* the formats a mask admits: same length, and the same symbol wherever the
\* mask is not "*"
Admissible(mask) ==
    {f \in ALLOWED_FORMATS :
        /\ Len(f) = Len(mask)
        /\ \A i \in 1..Len(mask) : mask[i] = "*" \/ mask[i] = f[i]}

\* s is an instance of the format f
IsInstance(s, f) ==
    /\ Len(s) = Len(f)
    /\ \A i \in 1..Len(f) :
          /\ f[i] = "9" => s[i] \in ALLOWED_NUMBERS
          /\ f[i] = "X" => s[i] \in ALLOWED_LETTERS

\* the maximal runs of digits of s, as pairs <<first, last>>
DigitRuns(s) ==
    {r \in (1..Len(s)) \X (1..Len(s)) :
        /\ r[1] <= r[2]
        /\ \A k \in r[1]..r[2] : s[k] \in ALLOWED_NUMBERS
        /\ r[1] > 1 => s[r[1] - 1] \notin ALLOWED_NUMBERS
        /\ r[2] < Len(s) => s[r[2] + 1] \notin ALLOWED_NUMBERS}

HasAllZeroRun(s) == \E r \in DigitRuns(s) : \A k \in r[1]..r[2] : s[k] = "0"

\* s without the characters of the set chars
DeleteAll(s, chars) == SelectSeq(s, LAMBDA c : c \notin chars)

\* the argument prefer has an entry that is no allowed format
BadPrefer ==
    /\ arg_prefer.given
    /\ \E i \in 1..Len(arg_prefer.list) : arg_prefer.list[i] \notin ALLOWED_FORMATS

(***************************************************************************)
(* C1. Preference honored: when every entry of the preference list is an   *)
(* allowed format and some entry is admissible for the input's mask, the   *)
(* chosen format is the first admissible entry in list order, and the      *)
(* ambiguous characters of the output follow that format.                  *)
(***************************************************************************)
C1_PreferenceHonored ==
    (Chosen /\ ~BadPrefer /\ arg_prefer.given) =>
        LET list == arg_prefer.list
            hits == {i \in 1..Len(list) : list[i] \in Admissible(fmt)}
        IN  hits # {} =>
              /\ chosen_fmt = list[CHOOSE i \in hits : \A j \in hits : i <= j]
              /\ Returned =>
                    \A i \in 1..Len(fmt) :
                        fmt[i] = "*" =>
                            result[i] = IF chosen_fmt[i] = "9" THEN "0" ELSE "CYR_O"

\* a returned call whose first preferred format was skipped as not admissible
\* although several formats were admissible
C1_Witness ==
    /\ Returned
    /\ Len(prefer) = 2
    /\ prefer[1] \notin possible
    /\ chosen_fmt = prefer[2]
    /\ Cardinality(possible) > 1
    /\ result # arg_no

(***************************************************************************)
(* C2. The region check applies only to the format X999XX999: a call whose *)
(* final checks ran fails with LeadingZeroRegion exactly when the chosen   *)
(* format is X999XX999, the third character from the end is "0" and no     *)
(* digit run is all zeros; under every other format the string is returned.*)
(***************************************************************************)
C2_RegionCheckOnlyThreeDigitRegion ==
    (Ended /\ Chosen) =>
        (raised = "LeadingZeroRegion"
            <=> /\ chosen_fmt = F_X999XX999
                /\ no[Len(no) - 2] = "0"
                /\ ~HasAllZeroRun(no))

(***************************************************************************)
(* C3. find_possible_formats returns exactly the allowed formats of the    *)
(* mask's length that agree with the mask wherever it is not "*", and      *)
(* fails with NoMatchingFormat exactly when there is none.                 *)
(***************************************************************************)
C3_PossibleFormatsExact ==
    (entry = "find_possible_formats" /\ pc = "done") =>
        /\ raised = "NoMatchingFormat" <=> Admissible(fmt) = {}
        /\ raised = "" <=> Admissible(fmt) # {}
        /\ raised = "" => possible = Admissible(fmt)

\* the mask ***9XX99 of the test, with its three formats
C3_Witness ==
    /\ entry = "find_possible_formats"
    /\ pc = "done"
    /\ fmt = <<"*", "*", "*", "9", "X", "X", "9", "9">>
    /\ possible = {F_9999XX99, F_X999XX99, F_XX99XX99}

(***************************************************************************)
(* C4. Idempotence: when normalize returned r, normalize(r) with the same  *)
(* preference argument returns r.                                          *)
(***************************************************************************)
C4_Idempotent ==
    (Ended /\ prev.called /\ prev.raised = "" /\ arg_no = prev.result
           /\ arg_prefer = prev.prefer) =>
        /\ raised = ""
        /\ result = arg_no

\* normalize changed its input, picked among several formats without a
\* preference, and was called again on what it returned
C4_Witness ==
    /\ Returned
    /\ prev.called
    /\ prev.raised = ""
    /\ arg_no = prev.result
    /\ prev.no # prev.result
    /\ ~arg_prefer.given
    /\ Cardinality(possible) > 1
    /\ result = arg_no

C6_OutputInstanceOfChosen ==
    Returned =>
        /\ chosen_fmt \in ALLOWED_FORMATS
        /\ Len(result) = Len(basic_adjustments(arg_no))
        /\ IsInstance(result, chosen_fmt)
        /\ \A i \in 1..Len(result) : result[i] \in ALLOWED_SYMBOLS

\* a plate typed in small Latin letters, its first character o returned as
\* the digit 0 of the format 9999XX99
C6_Witness ==
    /\ Returned
    /\ chosen_fmt = F_9999XX99
    /\ arg_no[1] = "o"
    /\ arg_no[5] = "a"
    /\ result[1] = "0"
    /\ result[5] = "CYR_A"

(***************************************************************************)
(* C7 as stated. The sanitizer removes every whitespace character: the     *)
(* sanitized string is that of the input with all whitespace deleted, and  *)
(* no call fails with InvalidCharacter because of a whitespace character.  *)
(***************************************************************************)
C7_AllWhitespaceRemoved ==
    /\ (entry = "normalize" /\ pc = "build_mask") =>
          /\ no = basic_adjustments(DeleteAll(arg_no, Whitespace))
          /\ \A i \in 1..Len(no) : no[i] \notin Whitespace
    /\ (Ended /\ raised = "InvalidCharacter") => raised_char \notin Whitespace

(***************************************************************************)
(* C7 as amended. The sanitizer removes every space character (U+0020) and *)
(* no other whitespace: the sanitized string is that of the input with all *)
(* spaces deleted and holds no space; a tab or a newline stays, and a call *)
(* on an input that holds one ends with InvalidCharacter (after the check  *)
(* of the preference list).                                                *)
(***************************************************************************)
C7_SpacesRemoved ==
    /\ (entry = "normalize" /\ pc = "build_mask") =>
          /\ no = basic_adjustments(DeleteAll(arg_no, {" "}))
          /\ \A i \in 1..Len(no) : no[i] # " "
          /\ \A c \in Whitespace \ {" "} :
                Len(DeleteAll(no, {c})) = Len(DeleteAll(arg_no, {" ", c}))
    /\ (Ended /\ ~BadPrefer
              /\ \E i \in 1..Len(arg_no) : arg_no[i] \in Whitespace \ {" "}) =>
          raised = "InvalidCharacter"
    /\ (Ended /\ raised = "InvalidCharacter") => raised_char # " "

\* a plate typed with spaces in it, normalized
C7_Witness ==
    /\ Returned
    /\ Len(arg_no) > Len(result)
    /\ \E i \in 2..(Len(arg_no) - 1) : arg_no[i] = " "

C9_AllZeroRunCheck ==
    Checked => (raised = "AllZeroSequence" <=> HasAllZeroRun(no))

\* a string that passed the check with zeros before and after other digits:
\* 001 and 100
C9_Witness ==
    /\ Checked
    /\ raised = ""
    /\ SubSeq(no, 2, 4) = <<"0", "0", "1">>
    /\ SubSeq(no, Len(no) - 2, Len(no)) = <<"1", "0", "0">>

(***************************************************************************)
(* C10. Fixed point under an explicit preference: for an allowed format f  *)
(* and an instance s of f over the permitted alphabet, normalize(s, [f])   *)
(* returns s or fails with AllZeroSequence or LeadingZeroRegion.           *)
(***************************************************************************)
C10_FixedPointUnderPreference ==
    (Ended /\ arg_prefer.given /\ Len(arg_prefer.list) = 1
           /\ arg_prefer.list[1] \in ALLOWED_FORMATS
           /\ IsInstance(arg_no, arg_prefer.list[1])) =>
        \/ raised = "" /\ result = arg_no
        \/ raised \in {"AllZeroSequence", "LeadingZeroRegion"}

\* an instance with ambiguous characters that another format admits too,
\* returned unchanged
C10_Witness ==
    /\ Returned
    /\ arg_prefer.given
    /\ Len(arg_prefer.list) = 1
    /\ IsInstance(arg_no, arg_prefer.list[1])
    /\ Cardinality(possible) > 1
    /\ \E i \in 1..Len(arg_no) : arg_no[i] = "0"
    /\ \E i \in 1..Len(arg_no) : arg_no[i] = "CYR_O"
    /\ result = arg_no

=============================================================================
